---- MODULE Spec2Model ----
(***************************************************************************)
(* Model of the two hash tables of the repository:                         *)
(*   - DoubleKeyTable (src/double_key_table.py): a two-level linear-probe  *)
(*     table; every occupied top-level slot owns a LinearProbeTable.       *)
(*   - InfiniteHashTable (src/infinite_hash_table.py): a trie of 27-slot   *)
(*     nodes.                                                              *)
(* Keys are strings, modelled as sequences of code points.  Python's None  *)
(* is the empty tuple <<>>.  Array positions are 0-based as in the code;   *)
(* array[p] of the code is array[p + 1] here.                              *)
(***************************************************************************)
EXTENDS Integers, Sequences, FiniteSets, TLC

VARIABLES tbl, ref, last, gen, trie, tkeys, tlast

vars == <<tbl, ref, last, gen, trie, tkeys, tlast>>

table_vars == <<tbl, ref, last, gen>>

trie_vars == <<trie, tkeys, tlast>>

None == <<>>

(***************************************************************************)
(* Bounds of the model.                                                    *)
(***************************************************************************)
\* Delete is explored only while the drifting top-level count stays within it.
MaxCount == 5
\* Deepest trie level the interpreter's recursion limit lets Set create.
MaxLevel == 3
\* The frames the same limit leaves below the sort_keys frame of a node of level
\* MaxLevel, when sort_keys is called from where the Sets were called: the
\* constructor a Set of that level has no room for takes several.
SortSlack == 4
\* The limit, counted in frames of sort_keys below the call site.
FrameLimit == MaxLevel + 1 + SortSlack
\* How many frames deeper than the Sets a call of sort_keys is made.
CallDepths == {0, 4}

(***************************************************************************)
(* Inputs.                                                                 *)
(***************************************************************************)
\* "a" "d" "b" "c": a and d share hash1 when the capacity is 3.
K1 == {<<97>>, <<100>>, <<98>>, <<99>>}
\* "x" "y" "xy" "z": y and xy share hash2 at capacity 3, x and z at capacity 2.
K2 == {<<120>>, <<121>>, <<120, 121>>, <<122>>}
\* Only "a" is given several second keys.
Pairs == {p \in K1 \X K2 : p[1] = <<97>> \/ p[2] = <<120>>}
Values == {1, 2}
\* The values Set is called with: 2 only for ("a","x") and ("d","x").
SetArgs == {a \in Pairs \X Values :
              a[2] = 1 \/ a[1] \in {<<(<<97>>), (<<120>>)>>, <<(<<100>>), (<<120>>)>>}}
\* The arguments the constructor is called with.
Sizes == <<2, 3>>
InternalSizes == <<2, 3>>

HASH_BASE == 31

(***************************************************************************)
(* The polynomial hash shared by hash1, hash2 and LinearProbeTable.hash.   *)
(***************************************************************************)
RECURSIVE HashLoop(_, _, _, _, _)
HashLoop(key, i, value, a, size) ==
    IF i > Len(key) THEN value
    ELSE HashLoop(key, i + 1, (key[i] + a * value) % size,
                  (a * HASH_BASE) % (size - 1), size)

PolyHash(key, size) == HashLoop(key, 1, 0, 31415, size)

(***************************************************************************)
(* LinearProbeTable: the single-key table every sub-table is an instance   *)
(* of.  A table is [sizes, size_index, array, count]; its hash is bound by *)
(* DoubleKeyTable._linear_probe to hash2 of the table itself.              *)
(***************************************************************************)
hash2(key, sub_table) == PolyHash(key, Len(sub_table.array))

LPT_new(sizes) ==
    [sizes |-> sizes, size_index |-> 1,
     array |-> [i \in 1..sizes[1] |-> None], count |-> 0]

RECURSIVE LPT_probe_loop(_, _, _, _, _)
LPT_probe_loop(sub, key, is_insert, position, n) ==
    IF n = 0
    THEN [res |-> IF is_insert THEN "FullError" ELSE "KeyError", pos |-> 0]
    ELSE IF sub.array[position + 1] = None
         THEN IF is_insert THEN [res |-> "ok", pos |-> position]
              ELSE [res |-> "KeyError", pos |-> 0]
         ELSE IF sub.array[position + 1][1] = key
              THEN [res |-> "ok", pos |-> position]
              ELSE LPT_probe_loop(sub, key, is_insert,
                                  (position + 1) % Len(sub.array), n - 1)

LPT_linear_probe(sub, key, is_insert) ==
    LPT_probe_loop(sub, key, is_insert, hash2(key, sub), Len(sub.array))

LPT_contains(sub, key) == LPT_linear_probe(sub, key, FALSE).res = "ok"

LPT_getitem(sub, key) ==
    LET lp == LPT_linear_probe(sub, key, FALSE)
    IN  IF lp.res = "ok"
        THEN [res |-> "ok", val |-> sub.array[lp.pos + 1][2]]
        ELSE [res |-> lp.res, val |-> 0]

\* The occupied slots of an array, in slot order.
RECURSIVE Items(_, _)
Items(array, i) ==
    IF i > Len(array) THEN <<>>
    ELSE IF array[i] = None THEN Items(array, i + 1)
         ELSE <<array[i]>> \o Items(array, i + 1)

LPT_keys(sub) == LET it == Items(sub.array, 1) IN [i \in 1..Len(it) |-> it[i][1]]

LPT_values(sub) == LET it == Items(sub.array, 1) IN [i \in 1..Len(it) |-> it[i][2]]

RECURSIVE LPT_setitem(_, _, _)
RECURSIVE LPT_reinsert(_, _, _)
\* Re-insertion of the old array's items, in slot order, by __setitem__.
LPT_reinsert(sub, items, i) ==
    IF i > Len(items) THEN [res |-> "ok", sub |-> sub]
    ELSE LET r == LPT_setitem(sub, items[i][1], items[i][2])
         IN  IF r.res = "ok" THEN LPT_reinsert(r.sub, items, i + 1) ELSE r

\* Moves to the next capacity; a no-op when the capacity is the largest.
LPT_rehash(sub) ==
    IF sub.size_index >= Len(sub.sizes) THEN [res |-> "ok", sub |-> sub]
    ELSE LPT_reinsert([sub EXCEPT !.size_index = @ + 1,
                                  !.array = [i \in 1..sub.sizes[sub.size_index + 1] |-> None],
                                  !.count = 0],
                      Items(sub.array, 1), 1)

LPT_setitem(sub, key, data) ==
    LET lp == LPT_linear_probe(sub, key, TRUE)
    IN  IF lp.res # "ok" THEN [res |-> lp.res, sub |-> sub]
        ELSE LET s1 == [sub EXCEPT
                          !.count = IF sub.array[lp.pos + 1] = None THEN @ + 1 ELSE @,
                          !.array[lp.pos + 1] = <<key, data>>]
             IN  IF 2 * s1.count > Len(s1.array) THEN LPT_rehash(s1)
                 ELSE [res |-> "ok", sub |-> s1]

\* The back-shift loop: every entry of the cluster after the vacated slot is
\* taken out and re-inserted by linear probing.
RECURSIVE LPT_shift(_, _)
\* The sub-table loop left out: the entries after the vacated slot stay put.
LPT_shift_None(sub, position) == sub

LPT_shift(sub, position) ==
    IF sub.array[position + 1] = None THEN sub
    ELSE LET e == sub.array[position + 1]
             s1 == [sub EXCEPT !.array[position + 1] = None]
             newpos == LPT_linear_probe(s1, e[1], TRUE).pos
         IN  LPT_shift([s1 EXCEPT !.array[newpos + 1] = e],
                       (position + 1) % Len(sub.array))

LPT_delitem(sub, key) ==
    LET lp == LPT_linear_probe(sub, key, FALSE)
    IN  IF lp.res # "ok" THEN [res |-> lp.res, sub |-> sub]
        ELSE [res |-> "ok",
              sub |-> LPT_shift([sub EXCEPT !.array[lp.pos + 1] = None,
                                            !.count = @ - 1],
                                (lp.pos + 1) % Len(sub.array))]

(***************************************************************************)
(* DoubleKeyTable.  A table is [TABLE_SIZES, internal_sizes, size_index,   *)
(* array, count]; an occupied slot of array is <<key1, sub_table>>.        *)
(***************************************************************************)
DKT_init(sizes, internal_sizes) ==
    [TABLE_SIZES |-> sizes, internal_sizes |-> internal_sizes, size_index |-> 0,
     array |-> [i \in 1..sizes[1] |-> None], count |-> 0]

table_size(T) == Len(T.array)

hash1(T, key) == PolyHash(key, table_size(T))

len(T) == T.count

RECURSIVE probe_loop(_, _, _, _, _, _)
\* _linear_probe taking only an empty slot when it inserts.
probe_loop_NoMatch(T, key1, key2, is_insert, position, n) ==
    IF n = 0 THEN [res |-> "FullError", T |-> T, pos1 |-> 0, pos2 |-> 0]
    ELSE LET e == T.array[position + 1] IN
         IF e = None
         THEN IF is_insert
              THEN LET subtable == LPT_new(T.internal_sizes)
                       T1 == [T EXCEPT !.array[position + 1] = <<key1, subtable>>,
                                       !.count = @ + 1]
                       lp == LPT_linear_probe(subtable, key2, is_insert)
                   IN  [res |-> lp.res, T |-> T1, pos1 |-> position, pos2 |-> lp.pos]
              ELSE [res |-> "KeyError", T |-> T, pos1 |-> 0, pos2 |-> 0]
         ELSE IF e[1] = key1 /\ ~is_insert
              THEN LET lp == LPT_linear_probe(e[2], key2, is_insert)
                   IN  [res |-> lp.res, T |-> T, pos1 |-> position, pos2 |-> lp.pos]
              ELSE probe_loop(T, key1, key2, is_insert,
                              (position + 1) % table_size(T), n - 1)

probe_loop(T, key1, key2, is_insert, position, n) ==
    IF n = 0 THEN [res |-> "FullError", T |-> T, pos1 |-> 0, pos2 |-> 0]
    ELSE LET e == T.array[position + 1] IN
         IF e = None
         THEN IF is_insert
              THEN LET subtable == LPT_new(T.internal_sizes)
                       T1 == [T EXCEPT !.array[position + 1] = <<key1, subtable>>,
                                       !.count = @ + 1]
                       lp == LPT_linear_probe(subtable, key2, is_insert)
                   IN  [res |-> lp.res, T |-> T1, pos1 |-> position, pos2 |-> lp.pos]
              ELSE [res |-> "KeyError", T |-> T, pos1 |-> 0, pos2 |-> 0]
         ELSE IF e[1] = key1
              THEN LET lp == LPT_linear_probe(e[2], key2, is_insert)
                   IN  [res |-> lp.res, T |-> T, pos1 |-> position, pos2 |-> lp.pos]
              ELSE probe_loop(T, key1, key2, is_insert,
                              (position + 1) % table_size(T), n - 1)

linear_probe(T, key1, key2, is_insert) ==
    probe_loop(T, key1, key2, is_insert, hash1(T, key1), table_size(T))

getitem(T, key) ==
    LET lp == linear_probe(T, key[1], key[2], FALSE)
    IN  IF lp.res # "ok" THEN [res |-> lp.res, val |-> 0]
        ELSE LPT_getitem(T.array[lp.pos1 + 1][2], key[2])

\* __contains__ catches KeyError only: any other error of __getitem__ is raised.
contains(T, key) ==
    LET r == getitem(T, key)
    IN  IF r.res = "ok" THEN [res |-> "ok", val |-> TRUE]
        ELSE IF r.res = "KeyError" THEN [res |-> "ok", val |-> FALSE]
        ELSE [res |-> r.res, val |-> FALSE]

\* The first entry of the array, from slot i on, whose key1 is key; None if
\* there is none.
RECURSIVE FindEntry(_, _, _)
FindEntry(array, key, i) ==
    IF i > Len(array) THEN None
    ELSE IF array[i] # None /\ array[i][1] = key THEN array[i]
         ELSE FindEntry(array, key, i + 1)

\* all_values.extend(entry[1].values()) over the entries in slot order.
RECURSIVE ExtendValues(_, _)
ExtendValues(entries, i) ==
    IF i > Len(entries) THEN <<>>
    ELSE LPT_values(entries[i][2]) \o ExtendValues(entries, i + 1)

keys(T, key) ==
    IF key = None
    THEN LET it == Items(T.array, 1) IN [i \in 1..Len(it) |-> it[i][1]]
    ELSE LET entry == FindEntry(T.array, key, 1)
         IN  IF entry # None THEN LPT_keys(entry[2]) ELSE <<>>

values(T, key) ==
    IF key = None THEN ExtendValues(Items(T.array, 1), 1)
    ELSE LET entry == T.array[hash1(T, key) + 1]
         IN  IF entry # None /\ entry[1] = key THEN LPT_values(entry[2]) ELSE <<>>

(***************************************************************************)
(* The generators iter_keys and iter_values.  A generator runs from one    *)
(* yield to the next at each next() of its consumer, and other operations  *)
(* may run in between.  Its record holds: kind and key, the call; phase,   *)
(* "new" before the first next(), "run" while suspended at a yield, "done" *)
(* once it has ended, with res the way it ended; pos, the next index of    *)
(* the loop over the top array; the array the loop runs over, which is the *)
(* table's own array (live) until a Rehash replaces that, and the replaced *)
(* array (arr) from then on; pending, the rest of the list a sub-table's   *)
(* values() returned; out, the elements yielded so far; clean, whether the *)
(* table is as it was at the first next().                                 *)
(***************************************************************************)
NoGen ==
    [kind |-> "none", key |-> None, phase |-> "done", live |-> FALSE, arr |-> <<>>,
     pos |-> 0, pending |-> <<>>, out |-> <<>>, res |-> "ok", clean |-> TRUE]

gen_new(kind, key) == [NoGen EXCEPT !.kind = kind, !.key = key, !.phase = "new"]

gen_array(T, g) == IF g.live THEN T.array ELSE g.arr

gen_end(g, res) ==
    [g EXCEPT !.phase = "done", !.res = res, !.live = FALSE, !.arr = <<>>,
              !.pos = 0, !.pending = <<>>]

\* The first next() starts the body: the loop takes the table's array.
gen_started(g) ==
    IF g.phase = "new" THEN [g EXCEPT !.phase = "run", !.live = TRUE] ELSE g

\* The first index from pos on whose slot is occupied; Len(array) if none.
RECURSIVE NextEntry(_, _)
NextEntry(array, pos) ==
    IF pos >= Len(array) THEN Len(array)
    ELSE IF array[pos + 1] # None THEN pos
    ELSE NextEntry(array, pos + 1)

\* The first index from pos on whose entry yields values for key (any entry
\* when key is None): an entry whose values() is empty yields nothing.
RECURSIVE NextValues(_, _, _)
NextValues(array, key, pos) ==
    IF pos >= Len(array) THEN Len(array)
    ELSE IF /\ array[pos + 1] # None
            /\ key = None \/ array[pos + 1][1] = key
            /\ LPT_values(array[pos + 1][2]) # <<>>
         THEN pos
         ELSE NextValues(array, key, pos + 1)

\* One next() of iter_keys.  With a key, the sub-table's iter_keys is called:
\* LinearProbeTable has no such method.
iter_keys(T, g0) ==
    LET g == gen_started(g0)
        array == gen_array(T, g)
    IN  IF g.key = None
        THEN LET i == NextEntry(array, g.pos)
             IN  IF i < Len(array)
                 THEN [g EXCEPT !.pos = i + 1, !.out = Append(@, array[i + 1][1])]
                 ELSE gen_end(g, "BaseException")
        ELSE LET entry == array[hash1(T, g.key) + 1]
             IN  IF entry # None /\ entry[1] = g.key
                 THEN gen_end(g, "AttributeError")
                 ELSE gen_end(g, "BaseException")

\* One next() of iter_values.
iter_values(T, g0) ==
    LET g == gen_started(g0)
        array == gen_array(T, g)
    IN  IF g.pending # <<>>
        THEN [g EXCEPT !.pending = Tail(@), !.out = Append(@, g.pending[1])]
        ELSE LET i == NextValues(array, g.key, g.pos)
             IN  IF i < Len(array)
                 THEN LET vals == LPT_values(array[i + 1][2])
                      IN  [g EXCEPT !.pos = i + 1, !.pending = Tail(vals),
                                    !.out = Append(@, vals[1])]
                 ELSE gen_end(g, "KeyError")

\* All (key1, key2, data) of a top-level array, in slot order of the top array
\* and, within a slot, of the sub-table's array.
RECURSIVE Triples(_, _)
Triples(array, i) ==
    IF i > Len(array) THEN <<>>
    ELSE IF array[i] = None THEN Triples(array, i + 1)
         ELSE LET it == Items(array[i][2].array, 1)
              IN  [j \in 1..Len(it) |-> <<array[i][1], it[j][1], it[j][2]>>]
                  \o Triples(array, i + 1)

RECURSIVE setitem(_, _, _)
RECURSIVE reinsert(_, _, _)
RECURSIVE rehash(_)
reinsert(T, triples, i) ==
    IF i > Len(triples) THEN [res |-> "ok", T |-> T]
    ELSE LET r == setitem(T, <<triples[i][1], triples[i][2]>>, triples[i][3])
         IN  IF r.res = "ok" THEN reinsert(r.T, triples, i + 1) ELSE r

\* rehash with the new array allocated at the old capacity.
rehash_SameSize(T) ==
    IF T.size_index + 1 >= Len(T.TABLE_SIZES)
    THEN [res |-> "ok", T |-> [T EXCEPT !.size_index = Len(T.TABLE_SIZES)]]
    ELSE reinsert([T EXCEPT !.size_index = @ + 1,
                            !.array = [i \in 1..table_size(T) |-> None],
                            !.count = 0],
                  Triples(T.array, 1), 1)

\* _rehash clearing the table when no larger size is left.
rehash_ClearAtLast(T) ==
    IF T.size_index + 1 >= Len(T.TABLE_SIZES)
    THEN [res |-> "ok", T |-> [T EXCEPT !.size_index = Len(T.TABLE_SIZES),
                                        !.array = [i \in 1..table_size(T) |-> None],
                                        !.count = 0]]
    ELSE LET new_size == T.TABLE_SIZES[T.size_index + 2]
         IN  reinsert([T EXCEPT !.size_index = @ + 1,
                                !.array = [i \in 1..new_size |-> None],
                                !.count = 0],
                      Triples(T.array, 1), 1)

\* size_index is stored saturated at Len(TABLE_SIZES): the code keeps counting
\* past it, and only compares it with len(TABLE_SIZES).
rehash(T) ==
    IF T.size_index + 1 >= Len(T.TABLE_SIZES)
    THEN [res |-> "ok", T |-> [T EXCEPT !.size_index = Len(T.TABLE_SIZES)]]
    ELSE LET new_size == T.TABLE_SIZES[T.size_index + 2]
         IN  reinsert([T EXCEPT !.size_index = @ + 1,
                                !.array = [i \in 1..new_size |-> None],
                                !.count = 0],
                      Triples(T.array, 1), 1)

\* __setitem__ rehashing the table as it was before the write.
setitem_RehashBeforeWrite(T, key, data) ==
    LET lp == linear_probe(T, key[1], key[2], TRUE)
    IN  IF lp.res # "ok" THEN [res |-> lp.res, T |-> lp.T]
        ELSE LET e == lp.T.array[lp.pos1 + 1]
                 w == LPT_setitem(e[2], key[2], data)
                 T1 == [lp.T EXCEPT !.array[lp.pos1 + 1] = <<e[1], w.sub>>]
             IN  IF w.res # "ok" THEN [res |-> w.res, T |-> T1]
                 ELSE IF len(T1) > table_size(T1) \div 2 THEN rehash(T)
                      ELSE [res |-> "ok", T |-> T1]

\* __setitem__ counting a key1 although the probe failed.
setitem_CountOnFull(T, key, data) ==
    LET lp == linear_probe(T, key[1], key[2], TRUE)
    IN  IF lp.res # "ok" THEN [res |-> lp.res, T |-> [lp.T EXCEPT !.count = @ + 1]]
        ELSE LET e == lp.T.array[lp.pos1 + 1]
                 w == LPT_setitem(e[2], key[2], data)
                 T1 == [lp.T EXCEPT !.array[lp.pos1 + 1] = <<e[1], w.sub>>]
             IN  IF w.res # "ok" THEN [res |-> w.res, T |-> T1]
                 ELSE IF len(T1) > table_size(T1) \div 2 THEN rehash(T1)
                      ELSE [res |-> "ok", T |-> T1]

\* __setitem__ rehashing only when count exceeds the capacity.
setitem_LateRehash(T, key, data) ==
    LET lp == linear_probe(T, key[1], key[2], TRUE)
    IN  IF lp.res # "ok" THEN [res |-> lp.res, T |-> lp.T]
        ELSE LET e == lp.T.array[lp.pos1 + 1]
                 w == LPT_setitem(e[2], key[2], data)
                 T1 == [lp.T EXCEPT !.array[lp.pos1 + 1] = <<e[1], w.sub>>]
             IN  IF w.res # "ok" THEN [res |-> w.res, T |-> T1]
                 ELSE IF len(T1) > table_size(T1) THEN rehash(T1)
                      ELSE [res |-> "ok", T |-> T1]

setitem(T, key, data) ==
    LET lp == linear_probe(T, key[1], key[2], TRUE)
    IN  IF lp.res # "ok" THEN [res |-> lp.res, T |-> lp.T]
        ELSE LET e == lp.T.array[lp.pos1 + 1]
                 w == LPT_setitem(e[2], key[2], data)
                 T1 == [lp.T EXCEPT !.array[lp.pos1 + 1] = <<e[1], w.sub>>]
             IN  IF w.res # "ok" THEN [res |-> w.res, T |-> T1]
                 ELSE IF len(T1) > table_size(T1) \div 2 THEN rehash(T1)
                      ELSE [res |-> "ok", T |-> T1]

\* The table as __setitem__ leaves it after its write, before its load test,
\* and the result of the write.
setitem_written(T, key, data) ==
    LET lp == linear_probe(T, key[1], key[2], TRUE)
    IN  IF lp.res # "ok" THEN [res |-> lp.res, T |-> lp.T]
        ELSE LET e == lp.T.array[lp.pos1 + 1]
                 w == LPT_setitem(e[2], key[2], data)
             IN  [res |-> w.res,
                  T |-> [lp.T EXCEPT !.array[lp.pos1 + 1] = <<e[1], w.sub>>]]

\* A suspended generator after a __setitem__: when _rehash allocates a new
\* array, the loop of the generator goes on over the array it started with,
\* which holds the entries as they were after the write.
gen_after_setitem(g, T, key, data) ==
    IF g.phase # "run" THEN g
    ELSE LET w == setitem_written(T, key, data)
             replaced == /\ g.live
                         /\ w.res = "ok"
                         /\ len(w.T) > table_size(w.T) \div 2
                         /\ w.T.size_index + 1 < Len(w.T.TABLE_SIZES)
         IN  [g EXCEPT !.clean = @ /\ setitem(T, key, data).T = T,
                       !.live = @ /\ ~replaced,
                       !.arr = IF replaced THEN w.T.array ELSE @]

\* A suspended generator after a __delitem__, which changes the array in place.
gen_after_delitem(g, T, T1) ==
    IF g.phase # "run" THEN g ELSE [g EXCEPT !.clean = @ /\ T1 = T]

HasEmpty(array) == \E i \in 1..Len(array) : array[i] = None

\* The top-level loop of __delitem__: it probes with is_insert = True, so the
\* probe itself stores a fresh sub-table and increments count before the
\* entry taken out is written over it.
\* __delitem__ without the top-level loop.
top_shift_None(T, position1, key2) == T

RECURSIVE top_shift(_, _, _)
top_shift(T, position1, key2) ==
    IF T.array[position1 + 1] = None THEN T
    ELSE LET e == T.array[position1 + 1]
             T1 == [T EXCEPT !.array[position1 + 1] = None]
             lp == linear_probe(T1, e[1], key2, TRUE)
         IN  top_shift([lp.T EXCEPT !.array[lp.pos1 + 1] = e],
                       (position1 + 1) % table_size(T), key2)

\* __delitem__ leaving the slot of an emptied sub-table in place.
delitem_KeepSlot(T, key) ==
    LET key1 == key[1]
        key2 == key[2]
        lp == linear_probe(T, key1, key2, FALSE)
    IN  IF lp.res # "ok" THEN [res |-> lp.res, T |-> T]
        ELSE LET position1 == lp.pos1
                 d == LPT_delitem(T.array[position1 + 1][2], key2)
                 sub1 == LPT_shift(d.sub, (lp.pos2 + 1) % Len(d.sub.array))
                 T1 == [T EXCEPT !.array[position1 + 1] = <<key1, sub1>>]
             IN  IF ~HasEmpty(T1.array)
                 THEN [res |-> "hang", T |-> T1]
                 ELSE [res |-> "ok",
                       T |-> top_shift(T1, (position1 + 1) % table_size(T1), key2)]

delitem(T, key) ==
    LET key1 == key[1]
        key2 == key[2]
        lp == linear_probe(T, key1, key2, FALSE)
    IN  IF lp.res # "ok" THEN [res |-> lp.res, T |-> T]
        ELSE LET position1 == lp.pos1
                 d == LPT_delitem(T.array[position1 + 1][2], key2)
                 emptied == d.sub.count = 0
                 sub1 == LPT_shift(d.sub, (lp.pos2 + 1) % Len(d.sub.array))
                 T1 == IF emptied
                       THEN [T EXCEPT !.array[position1 + 1] = None, !.count = @ - 1]
                       ELSE [T EXCEPT !.array[position1 + 1] = <<key1, sub1>>]
             IN  IF ~HasEmpty(T1.array)
                 THEN [res |-> "hang", T |-> T1]   \* the while loop never ends
                 ELSE [res |-> "ok",
                       T |-> top_shift(T1, (position1 + 1) % table_size(T1), key2)]

(***************************************************************************)
(* The two-level table as a state machine.  ref is the dictionary the      *)
(* operations that returned normally describe (0: not stored).             *)
(***************************************************************************)
NoOp == [op |-> "init", key |-> <<>>, val |-> 0, res |-> "ok", size |-> 0]

\* The trie is not used by this specification.
TInit ==
    /\ tbl = DKT_init(Sizes, InternalSizes)
    /\ ref = [p \in Pairs |-> 0]
    /\ last = NoOp
    /\ gen = NoGen
    /\ trie = None /\ tkeys = {} /\ tlast = NoOp

Running == last.res # "hang"

Get(p) ==
    /\ Running
    /\ LET r == getitem(tbl, p)
       IN  last' = [op |-> "get", key |-> p, val |-> r.val, res |-> r.res,
                    size |-> table_size(tbl)]
    /\ UNCHANGED <<tbl, ref, gen, trie_vars>>

Set(p, v) ==
    /\ Running
    /\ LET r == setitem(tbl, p, v)
       IN  /\ tbl' = r.T
           /\ ref' = IF r.res = "ok" THEN [ref EXCEPT ![p] = v] ELSE ref
           /\ gen' = gen_after_setitem(gen, tbl, p, v)
           /\ last' = [op |-> "set", key |-> p, val |-> v, res |-> r.res,
                       size |-> table_size(tbl)]
    /\ UNCHANGED trie_vars

Delete(p) ==
    /\ Running
    /\ LET r == delitem(tbl, p)
       IN  /\ r.T.count <= MaxCount
           /\ tbl' = r.T
           /\ ref' = IF r.res = "ok" THEN [ref EXCEPT ![p] = 0] ELSE ref
           /\ gen' = gen_after_delitem(gen, tbl, r.T)
           /\ last' = [op |-> "del", key |-> p, val |-> 0, res |-> r.res,
                       size |-> table_size(tbl)]
    /\ UNCHANGED trie_vars

\* keys() and values() return a list and raise nothing.
ListKeys(k) ==
    /\ Running
    /\ last' = [op |-> "keys", key |-> k, val |-> keys(tbl, k), res |-> "ok",
                size |-> table_size(tbl)]
    /\ UNCHANGED <<tbl, ref, gen, trie_vars>>

ListValues(k) ==
    /\ Running
    /\ last' = [op |-> "values", key |-> k, val |-> values(tbl, k), res |-> "ok",
                size |-> table_size(tbl)]
    /\ UNCHANGED <<tbl, ref, gen, trie_vars>>

Contains(p) ==
    /\ Running
    /\ LET r == contains(tbl, p)
       IN  last' = [op |-> "contains", key |-> p, val |-> r.val, res |-> r.res,
                    size |-> table_size(tbl)]
    /\ UNCHANGED <<tbl, ref, gen, trie_vars>>

TNext ==
    \/ \E p \in Pairs : Get(p)
    \/ \E a \in SetArgs : Set(a[1], a[2])
    \/ \E p \in Pairs : Delete(p)
    \/ \E k \in K1 \cup {None} : ListKeys(k)
    \/ \E k \in K1 \cup {None} : ListValues(k)
    \/ \E p \in Pairs : Contains(p)

SpecTable == TInit /\ [][TNext]_vars

\* The same table constructed with a size sequence of four entries, so that
\* one Set can take more than one Rehash and the capacity can rest at an
\* entry that is not the last.
GrowSizes == <<2, 3, 5, 7>>

GInit ==
    /\ tbl = DKT_init(GrowSizes, InternalSizes)
    /\ ref = [p \in Pairs |-> 0]
    /\ last = NoOp
    /\ gen = NoGen
    /\ trie = None /\ tkeys = {} /\ tlast = NoOp

SpecGrow == GInit /\ [][TNext]_vars

(***************************************************************************)
(* The table with one generator at a time, whose consumer may call Set and *)
(* Delete between two next().                                              *)
(***************************************************************************)
\* ("a","x") ("a","y") ("d","x"); 2 is set only for ("d","x").
IterPairs == {<<(<<97>>), (<<120>>)>>, <<(<<97>>), (<<121>>)>>,
              <<(<<100>>), (<<120>>)>>}

IterSetArgs == {a \in IterPairs \X Values : a[2] = 1 \/ a[1][1] = <<100>>}

IterArgs == {None, <<97>>, <<100>>}

\* Calling the generator function runs none of its body.
IterKeys(k) ==
    /\ Running /\ gen.phase = "done"
    /\ gen' = gen_new("iter_keys", k)
    /\ last' = [op |-> "iter_keys", key |-> k, val |-> <<>>, res |-> "ok",
                size |-> table_size(tbl)]
    /\ UNCHANGED <<tbl, ref, trie_vars>>

IterValues(k) ==
    /\ Running /\ gen.phase = "done"
    /\ gen' = gen_new("iter_values", k)
    /\ last' = [op |-> "iter_values", key |-> k, val |-> <<>>, res |-> "ok",
                size |-> table_size(tbl)]
    /\ UNCHANGED <<tbl, ref, trie_vars>>

\* next() on the generator: val is the list of the elements yielded so far,
\* res "ok" after a yield and the exception raised when the generator ends.
GenNext ==
    /\ Running /\ gen.phase # "done"
    /\ gen' = IF gen.kind = "iter_keys" THEN iter_keys(tbl, gen)
              ELSE iter_values(tbl, gen)
    /\ last' = [op |-> "next", key |-> gen.key, val |-> gen'.out,
                res |-> IF gen'.phase = "done" THEN gen'.res ELSE "ok",
                size |-> table_size(tbl)]
    /\ UNCHANGED <<tbl, ref, trie_vars>>

INext ==
    \/ \E a \in IterSetArgs : Set(a[1], a[2])
    \/ \E p \in IterPairs : Delete(p)
    \/ \E k \in IterArgs : IterKeys(k)
    \/ \E k \in IterArgs : IterValues(k)
    \/ GenNext

SpecIter == TInit /\ [][INext]_vars


(***************************************************************************)
(* InfiniteHashTable.  A node is [level, table]; a slot of table is None,  *)
(* a direct entry <<"t", key, value>> (the code's tuple) or a nested node  *)
(* <<"n", node>>.                                                          *)
(***************************************************************************)
TABLE_SIZE == 27

\* "a" "G" "ab" "aba" "abb" "b": ord("a") and ord("G") are congruent mod 26.
TKeys == {<<97>>, <<71>>, <<97, 98>>, <<97, 98, 97>>, <<97, 98, 98>>, <<98>>}

\* The values Set is called with: 2 only for "a" and "aba".
TrieSetArgs == {a \in TKeys \X Values : a[2] = 1 \/ a[1] \in {<<97>>, <<97, 98, 97>>}}

IsTuple(e) == Len(e) = 3

IsNode(e) == Len(e) = 2

IHT_new(level) == [level |-> level, table |-> [i \in 1..TABLE_SIZE |-> None]]

hash(self, key) ==
    IF self.level < Len(key) THEN key[self.level + 1] % (TABLE_SIZE - 1)
    ELSE TABLE_SIZE - 1

RECURSIVE trie_getitem(_, _)
trie_getitem(self, key) ==
    LET e == self.table[hash(self, key) + 1]
    IN  IF IsTuple(e) /\ e[2] = key THEN [res |-> "ok", val |-> e[3]]
        ELSE IF IsNode(e) THEN trie_getitem(e[2], key)
        ELSE [res |-> "KeyError", val |-> 0]

trie_contains(self, key) == trie_getitem(self, key).res = "ok"

\* A node of level MaxLevel cannot construct a nested node: the interpreter's
\* recursion limit is reached in the constructor call of line 75, after the
\* overwrite of line 72 and before the slot is replaced.
RECURSIVE trie_setitem(_, _, _)
trie_setitem(self, key, value) ==
    LET position == hash(self, key)
        e == self.table[position + 1]
    IN  IF e = None
        THEN [res |-> "ok",
              node |-> [self EXCEPT !.table[position + 1] = <<"t", key, value>>]]
        ELSE IF IsTuple(e)
        THEN LET t1 == IF e[2] = key THEN <<"t", key, value>> ELSE e
             IN  IF self.level + 1 > MaxLevel
                 THEN [res |-> "RecursionError",
                       node |-> [self EXCEPT !.table[position + 1] = t1]]
                 ELSE LET moved == trie_setitem(IHT_new(self.level + 1), t1[2], t1[3])
                          r == trie_setitem(moved.node, key, value)
                      IN  [res |-> r.res,
                           node |-> [self EXCEPT !.table[position + 1] = <<"n", r.node>>]]
        ELSE LET r == trie_setitem(e[2], key, value)
             IN  [res |-> r.res,
                  node |-> [self EXCEPT !.table[position + 1] = <<"n", r.node>>]]

\* ret is the value __delitem__ returns to the node above.
SoleTuple(table) ==
    LET remaining == Items(table, 1)
    IN  Len(remaining) = 1 /\ IsTuple(remaining[1])

RECURSIVE trie_delitem(_, _)
\* __delitem__ pulling an entry up without the test of line 117.
trie_delitem_NoLenTest(self, key) ==
    LET position == hash(self, key)
        e == self.table[position + 1]
    IN  IF e = None THEN [res |-> "KeyError", node |-> self, ret |-> FALSE]
        ELSE IF IsTuple(e)
        THEN LET s1 == IF e[2] = key THEN [self EXCEPT !.table[position + 1] = None]
                       ELSE self
             IN  [res |-> "ok", node |-> s1, ret |-> SoleTuple(s1.table)]
        ELSE LET r == trie_delitem(e[2], key)
             IN  IF r.res # "ok" THEN [res |-> r.res, node |-> self, ret |-> FALSE]
                 ELSE LET internal_remaining == Items(r.node.table, 1)
                      IN  IF Len(internal_remaining) >= 1
                          THEN LET s2 == [self EXCEPT !.table[position + 1] =
                                                        internal_remaining[1]]
                               IN  [res |-> "ok", node |-> s2,
                                    ret |-> SoleTuple(s2.table)]
                          ELSE [res |-> "ok", node |-> self, ret |-> FALSE]

trie_delitem(self, key) ==
    LET position == hash(self, key)
        e == self.table[position + 1]
    IN  IF e = None THEN [res |-> "KeyError", node |-> self, ret |-> FALSE]
        ELSE IF IsTuple(e)
        THEN LET s1 == IF e[2] = key THEN [self EXCEPT !.table[position + 1] = None]
                       ELSE self
             IN  [res |-> "ok", node |-> s1, ret |-> SoleTuple(s1.table)]
        ELSE LET r == trie_delitem(e[2], key)
             IN  IF r.res # "ok" THEN [res |-> r.res, node |-> self, ret |-> FALSE]
                 ELSE LET s1 == [self EXCEPT !.table[position + 1] = <<"n", r.node>>]
                          internal_remaining == Items(r.node.table, 1)
                      IN  IF r.ret /\ Len(internal_remaining) = 1
                          THEN LET s2 == [s1 EXCEPT !.table[position + 1] =
                                                      internal_remaining[1]]
                               IN  [res |-> "ok", node |-> s2,
                                    ret |-> SoleTuple(s2.table)]
                          ELSE [res |-> "ok", node |-> s1, ret |-> FALSE]

\* The loop of __len__ over the slots; the empty slots add nothing.
RECURSIVE trie_len(_)
RECURSIVE trie_len_sum(_, _)
\* __len__ counting a nested node as one entry.
trie_len_sum_Flat(entries, i) ==
    IF i > Len(entries) THEN 0 ELSE 1 + trie_len_sum(entries, i + 1)

trie_len_sum(entries, i) ==
    IF i > Len(entries) THEN 0
    ELSE (IF IsTuple(entries[i]) THEN 1 ELSE trie_len(entries[i][2]))
         + trie_len_sum(entries, i + 1)

trie_len(self) == trie_len_sum(Items(self.table, 1), 1)

RECURSIVE get_location(_, _)
\* get_location returning only the positions below the node it is called on.
get_location_Below(self, key) ==
    LET position == hash(self, key)
        e == self.table[position + 1]
    IN  IF IsTuple(e) /\ e[2] = key THEN [res |-> "ok", loc |-> <<position>>]
        ELSE IF IsNode(e)
        THEN LET r == get_location(e[2], key)
             IN  IF r.res = "ok" THEN [res |-> "ok", loc |-> r.loc]
                 ELSE [res |-> r.res, loc |-> <<>>]
        ELSE [res |-> "KeyError", loc |-> <<>>]

get_location(self, key) ==
    LET position == hash(self, key)
        e == self.table[position + 1]
    IN  IF IsTuple(e) /\ e[2] = key THEN [res |-> "ok", loc |-> <<position>>]
        ELSE IF IsNode(e)
        THEN LET r == get_location(e[2], key)
             IN  IF r.res = "ok" THEN [res |-> "ok", loc |-> <<position>> \o r.loc]
                 ELSE [res |-> r.res, loc |-> <<>>]
        ELSE [res |-> "KeyError", loc |-> <<>>]

\* Python's order of strings: by code point, a proper prefix first.
RECURSIVE LexLess(_, _, _)
LexLess(a, b, i) ==
    IF i > Len(a) THEN i <= Len(b)
    ELSE IF i > Len(b) THEN FALSE
    ELSE IF a[i] # b[i] THEN a[i] < b[i]
    ELSE LexLess(a, b, i + 1)

\* mergesort of the algorithms package: a stable merge sort, ascending.
RECURSIVE Merge(_, _)
Merge(l, r) ==
    IF l = <<>> THEN r
    ELSE IF r = <<>> THEN l
    ELSE IF LexLess(r[1], l[1], 1) THEN <<r[1]>> \o Merge(l, Tail(r))
    ELSE <<l[1]>> \o Merge(Tail(l), r)

RECURSIVE mergesort(_)
mergesort(l) ==
    IF Len(l) <= 1 THEN l
    ELSE LET mid == Len(l) \div 2
         IN  Merge(mergesort(SubSeq(l, 1, mid)), mergesort(SubSeq(l, mid + 1, Len(l))))

\* The loop of sort_keys over the slots: a direct entry gives its key, a nested
\* node the keys its own sort_keys returns.
RECURSIVE sort_keys(_)
RECURSIVE sort_keys_collect(_, _)
sort_keys_collect(entries, i) ==
    IF i > Len(entries) THEN <<>>
    ELSE (IF IsTuple(entries[i]) THEN <<entries[i][2]>> ELSE sort_keys(entries[i][2]))
         \o sort_keys_collect(entries, i + 1)

sort_keys(self) == mergesort(sort_keys_collect(Items(self.table, 1), 1))

\* The frames mergesort needs for n keys: it halves the list and recurses, and
\* its merge calls the key function it is given (line 192).
RECURSIVE MergeFrames(_)
MergeFrames(n) ==
    IF n <= 1 THEN 1
    ELSE LET half == MergeFrames((n + 1) \div 2)
         IN  1 + (IF half > 2 THEN half ELSE 2)

\* The deepest frame sort_keys reaches below its call site: every node runs in
\* a frame of its own (line 184) and sorts the keys it collected before it
\* returns them (line 192).
RECURSIVE sort_keys_frames(_)
RECURSIVE sort_keys_frames_below(_, _)
sort_keys_frames_below(entries, i) ==
    IF i > Len(entries) THEN 0
    ELSE LET rest == sort_keys_frames_below(entries, i + 1)
             here == IF IsNode(entries[i]) THEN sort_keys_frames(entries[i][2]) ELSE 0
         IN  IF here > rest THEN here ELSE rest

sort_keys_frames(self) ==
    LET entries == Items(self.table, 1)
        own == self.level + 1 + MergeFrames(Len(sort_keys_collect(entries, 1)))
        below == sort_keys_frames_below(entries, 1)
    IN  IF below > own THEN below ELSE own

(***************************************************************************)
(* The trie as a state machine.  tkeys is the set of keys the operations   *)
(* that returned normally have stored and not deleted.                     *)
(***************************************************************************)
\* The two-level table is not used by this specification.
TrieInit ==
    /\ trie = IHT_new(0)
    /\ tkeys = {}
    /\ tlast = NoOp
    /\ tbl = None /\ ref = None /\ last = NoOp /\ gen = NoGen

TrieGet(k) ==
    /\ LET r == trie_getitem(trie, k)
       IN  tlast' = [op |-> "get", key |-> k, val |-> r.val, res |-> r.res, size |-> 0]
    /\ UNCHANGED <<trie, tkeys, table_vars>>

TrieLocate(k) ==
    /\ LET r == get_location(trie, k)
       IN  tlast' = [op |-> "locate", key |-> k, val |-> r.loc, res |-> r.res, size |-> 0]
    /\ UNCHANGED <<trie, tkeys, table_vars>>

TrieSet(k, v) ==
    LET r == trie_setitem(trie, k, v)
    IN  /\ trie' = r.node
        /\ tkeys' = IF r.res = "ok" THEN tkeys \cup {k} ELSE tkeys
        /\ tlast' = [op |-> "set", key |-> k, val |-> v, res |-> r.res, size |-> 0]
        /\ UNCHANGED table_vars

TrieDelete(k) ==
    LET r == trie_delitem(trie, k)
    IN  /\ trie' = r.node
        /\ tkeys' = IF r.res = "ok" THEN tkeys \ {k} ELSE tkeys
        /\ tlast' = [op |-> "del", key |-> k, val |-> 0, res |-> r.res, size |-> 0]
        /\ UNCHANGED table_vars

\* sort_keys called d frames below the call site of the Sets; tlast.size
\* records d.  The other operations are called from the site of the Sets.
TrieSortKeys(d) ==
    /\ tlast' = IF d + sort_keys_frames(trie) > FrameLimit
                THEN [op |-> "sort", key |-> <<>>, val |-> <<>>,
                      res |-> "RecursionError", size |-> d]
                ELSE [op |-> "sort", key |-> <<>>, val |-> sort_keys(trie),
                      res |-> "ok", size |-> d]
    /\ UNCHANGED <<trie, tkeys, table_vars>>

TrieNext ==
    \/ \E k \in TKeys : TrieGet(k)
    \/ \E k \in TKeys : TrieLocate(k)
    \/ \E a \in TrieSetArgs : TrieSet(a[1], a[2])
    \/ \E k \in TKeys : TrieDelete(k)
    \/ \E d \in CallDepths : TrieSortKeys(d)

SpecTrie == TrieInit /\ [][TrieNext]_vars

\* The trie under keys that share their first MaxLevel characters ("abc" at
\* MaxLevel 3) and differ in the next one, "a" to "e": a Set of two of them
\* builds nodes down to level MaxLevel, where all of them are stored.
SortPrefix == [i \in 1..MaxLevel |-> 97 + ((i - 1) % 3)]

SortKeys == {SortPrefix \o <<c>> : c \in 97..101}

SortNext ==
    \/ \E k \in SortKeys : TrieGet(k)
    \/ \E k \in SortKeys : TrieSet(k, 1)
    \/ \E k \in SortKeys : TrieDelete(k)
    \/ \E d \in CallDepths : TrieSortKeys(d)

SpecSort == TrieInit /\ [][SortNext]_vars


(***************************************************************************)
(* Properties of the two-level table (checked under SpecTable).            *)
(***************************************************************************)
StoredPairs == {p \in Pairs : ref[p] # 0}

\* The key1 of the occupied top-level slots.
TopKeys(T) == {T.array[i][1] : i \in {j \in 1..Len(T.array) : T.array[j] # None}}

IsSet == last.op = "set" /\ last.res = "ok"

IsDel == last.op = "del" /\ last.res = "ok"

Retrievable(p) == getitem(tbl, p) = [res |-> "ok", val |-> ref[p]]

\* C1: len() equals the number of distinct (key1, key2) pairs currently stored.
C1_LenIsPairCount == len(tbl) = Cardinality(StoredPairs)

\* C3: after a Set((key1,key2), v) that returned normally, Get((key1,key2))
\* returns v.
C3_SetThenGet ==
    IsSet => getitem(tbl, last.key) = [res |-> "ok", val |-> last.val]

\* A Set of ("d","x") to 2, a new key1, that triggered a Rehash of the top level
\* while "a" owned three pairs.
C3_Witness ==
    /\ IsSet /\ last.key = <<(<<100>>), (<<120>>)>> /\ last.val = 2
    /\ table_size(tbl) # last.size
    /\ Cardinality(StoredPairs) = 4
    /\ getitem(tbl, last.key).val = 2

\* C5: after a successful Delete, Get on every other stored pair succeeds and
\* returns the value last set for it.
C5_DeleteKeepsOthers ==
    IsDel => \A q \in StoredPairs \ {last.key} : Retrievable(q)

\* ("a","y") deleted while ("a","xy"), which probes through y's slot, and
\* ("d","x"), whose key1 probes through a's slot, are stored.
C5_Witness ==
    /\ IsDel /\ last.key = <<(<<97>>), (<<121>>)>>
    /\ ref[<<(<<97>>), (<<120, 121>>)>>] # 0
    /\ ref[<<(<<100>>), (<<120>>)>>] # 0
    /\ table_size(tbl) = 3
    /\ hash1(tbl, <<97>>) = hash1(tbl, <<100>>)

\* C7: Get and Delete on a pair that is not stored fail with KeyError and
\* leave the table unchanged.
C7_MissingIsKeyError ==
    [][(last'.op \in {"get", "del"} /\ ref[last'.key] = 0)
         => (last'.res = "KeyError" /\ tbl' = tbl)]_vars

\* C9 as stated: when a Set makes the number of top-level keys exceed
\* capacity/2 (capacity as it was before the Set) and a larger size exists, the
\* capacity afterwards is the next entry of TABLE_SIZES and every stored pair
\* is retrievable.
NextSize(T, size) ==
    LET i == CHOOSE j \in 1..Len(T.TABLE_SIZES) : T.TABLE_SIZES[j] = size
    IN  T.TABLE_SIZES[i + 1]

Grew ==
    /\ IsSet
    /\ 2 * Cardinality(TopKeys(tbl)) > last.size
    /\ last.size # tbl.TABLE_SIZES[Len(tbl.TABLE_SIZES)]

C9_ResizeToNext ==
    Grew => /\ table_size(tbl) = NextSize(tbl, last.size)
            /\ \A q \in StoredPairs : Retrievable(q)

\* The first entry of TABLE_SIZES after size whose half holds n keys; the last
\* entry if there is none.
FittingSize(T, size, n) ==
    LET i == CHOOSE j \in 1..Len(T.TABLE_SIZES) : T.TABLE_SIZES[j] = size
        fit == {j \in (i + 1)..Len(T.TABLE_SIZES) : n <= T.TABLE_SIZES[j] \div 2}
    IN  IF fit = {} THEN T.TABLE_SIZES[Len(T.TABLE_SIZES)]
        ELSE T.TABLE_SIZES[CHOOSE j \in fit : \A k \in fit : j <= k]

\* C9, amended: after such a Set the capacity is the first later entry of
\* TABLE_SIZES whose half is not exceeded by the number of top-level keys (the
\* last entry if there is none), which is the next entry whenever that one is
\* large enough, and every stored pair is retrievable.
C9_ResizeToFitting ==
    Grew => /\ table_size(tbl) = FittingSize(tbl, last.size, Cardinality(TopKeys(tbl)))
            /\ (Cardinality(TopKeys(tbl)) <= NextSize(tbl, last.size) \div 2
                  => table_size(tbl) = NextSize(tbl, last.size))
            /\ \A q \in StoredPairs : Retrievable(q)

\* The Set of a second key1 at capacity 2 while the first owns three pairs in
\* a grown sub-table: the capacity afterwards is 5.
C9_Witness ==
    /\ Grew
    /\ last.size = 2
    /\ Cardinality(StoredPairs) = 4
    /\ table_size(tbl) = 5

\* The occupied top-level slots (1-based).
OccupiedSlots(T) == {i \in 1..Len(T.array) : T.array[i] # None}

\* C11: after every Set and every Delete that returns, count equals the number
\* of occupied top-level slots.
C11_CountIsOccupied ==
    (Running /\ last.op \in {"set", "del"})
      => tbl.count = Cardinality(OccupiedSlots(tbl))

\* C12: invariant I1, each key1 occupies at most one top-level slot.
C12_KeyOnce ==
    Running => \A i, j \in OccupiedSlots(tbl) :
                  tbl.array[i][1] = tbl.array[j][1] => i = j

\* A Delete of ("a","x") emptied a's slot at capacity 3 and the top-level loop
\* re-inserted "d", which probes through that slot, at its own hash position
\* (count has drifted: the loop has probed with is_insert).
C12_Witness ==
    /\ IsDel /\ last.key = <<(<<97>>), (<<120>>)>>
    /\ table_size(tbl) = 3 /\ last.size = 3
    /\ hash1(tbl, <<97>>) = hash1(tbl, <<100>>)
    /\ <<97>> \notin TopKeys(tbl)
    /\ tbl.array[hash1(tbl, <<100>>) + 1] # None
    /\ tbl.array[hash1(tbl, <<100>>) + 1][1] = <<100>>
    /\ tbl.count > Cardinality(OccupiedSlots(tbl))

\* C13: invariant I2, after a Set or Delete returns (normally or with an error)
\* every occupied top-level slot owns a sub-table holding at least one key2, and
\* a Delete that removed the last key2 of a key1 has cleared its slot.
C13_SubTablesNonEmpty ==
    (Running /\ last.op \in {"set", "del"})
      => /\ \A i \in OccupiedSlots(tbl) : Len(Items(tbl.array[i][2].array, 1)) >= 1
         /\ (IsDel /\ \A q \in StoredPairs : q[1] # last.key[1])
               => last.key[1] \notin TopKeys(tbl)

\* The Delete of ("d","x"), the only pair of "d", while "a" keeps its pairs.
C13_Witness ==
    /\ IsDel /\ last.key = <<(<<100>>), (<<120>>)>>
    /\ <<100>> \notin TopKeys(tbl)
    /\ <<97>> \in TopKeys(tbl)
    /\ Cardinality(StoredPairs) >= 2

\* The circular scan from position reaches target without passing an empty slot.
RECURSIVE ScanReaches(_, _, _, _)
ScanReaches(T, position, target, n) ==
    IF n = 0 THEN FALSE
    ELSE IF position = target THEN TRUE
    ELSE IF T.array[position + 1] = None THEN FALSE
    ELSE ScanReaches(T, (position + 1) % table_size(T), target, n - 1)

\* C14: invariant I3, for every key1 in the top array the circular scan from
\* hash1(key1) reaches key1's slot without first passing an empty slot.
C14_ProbeChainIntact ==
    Running => \A i \in OccupiedSlots(tbl) :
                  ScanReaches(tbl, hash1(tbl, tbl.array[i][1]), i - 1, table_size(tbl))

\* A Delete emptied the slot of a key1 at capacity 3 while another key1 with
\* the same hash1 stays stored.
C14_Witness ==
    /\ IsDel /\ table_size(tbl) = 3 /\ last.size = 3
    /\ last.key[1] \notin TopKeys(tbl)
    /\ \E k \in TopKeys(tbl) : hash1(tbl, k) = hash1(tbl, last.key[1])
    /\ Cardinality(TopKeys(tbl)) = 2

\* The key2 stored under key1, and the elements of a list.
StoredUnder(key1) == {p[2] : p \in {q \in StoredPairs : q[1] = key1}}

Elems(list) == {list[i] : i \in 1..Len(list)}

\* The top-level slot (1-based) that holds key1.
SlotOfKey(T, key1) == CHOOSE i \in OccupiedSlots(T) : T.array[i][1] = key1

\* C16: keys(None) returns every stored key1 exactly once in top-array slot
\* order; keys(key1) returns exactly the key2 stored under key1 when key1 is
\* present and raises when key1 is absent; the call leaves the table unchanged.
C16_KeysEnumerates ==
    [][(last'.op = "keys")
         => /\ tbl' = tbl
            /\ (last'.key = None)
                  => /\ last'.res = "ok"
                     /\ Elems(last'.val) = {p[1] : p \in StoredPairs}
                     /\ Len(last'.val) = Cardinality(Elems(last'.val))
                     /\ \A i, j \in 1..Len(last'.val) :
                           i < j => SlotOfKey(tbl, last'.val[i]) < SlotOfKey(tbl, last'.val[j])
            /\ (last'.key # None /\ StoredUnder(last'.key) # {})
                  => /\ last'.res = "ok"
                     /\ Elems(last'.val) = StoredUnder(last'.key)
                     /\ Len(last'.val) = Cardinality(StoredUnder(last'.key))
            /\ (last'.key # None /\ StoredUnder(last'.key) = {})
                  => last'.res # "ok"]_vars

\* C17: values(None) returns one value per stored pair, and for every stored
\* key1 values(key1) returns the values stored under key1, the i-th being the
\* value of the i-th key of keys(key1).
C17_ValuesMirrorKeys ==
    [][(last'.op = "values")
         => /\ (last'.key = None)
                  => /\ Len(last'.val) = Cardinality(StoredPairs)
                     /\ Elems(last'.val) = {ref[p] : p \in StoredPairs}
            /\ (last'.key # None /\ StoredUnder(last'.key) # {})
                  => /\ Len(last'.val) = Len(keys(tbl, last'.key))
                     /\ \A i \in 1..Len(last'.val) :
                           last'.val[i] = ref[<<last'.key, keys(tbl, last'.key)[i]>>]]_vars

\* The sub-table of a stored key1 has neither key2 nor an empty slot.
SubFull(T, key1, key2) ==
    LET sub == T.array[SlotOfKey(T, key1)][2]
    IN  /\ ~HasEmpty(sub.array)
        /\ \A i \in 1..Len(sub.array) : sub.array[i][1] # key2

\* C18 as stated: Set raises FullError only when key1 is not stored and every
\* top-level slot is occupied; the failing Set leaves the table unchanged; a
\* Set whose key1 is stored succeeds.
C18_FullOnlyTopLevel ==
    [][(last'.op = "set")
         => /\ (last'.res = "FullError")
                  => /\ last'.key[1] \notin TopKeys(tbl)
                     /\ ~HasEmpty(tbl.array)
                     /\ tbl' = tbl
            /\ (last'.key[1] \in TopKeys(tbl)) => last'.res = "ok"]_vars

\* C18 amended: Set raises FullError only when key1 is not stored and every
\* top-level slot is occupied, or when key1 is stored and its sub-table is full
\* without key2; the failing Set leaves the table unchanged; a Set whose key1
\* is stored and whose sub-table holds key2 or has room succeeds, also when
\* the top array is full.
C18_FullTopOrSub ==
    [][(last'.op = "set")
         => /\ (last'.res = "FullError")
                  => /\ \/ last'.key[1] \notin TopKeys(tbl) /\ ~HasEmpty(tbl.array)
                        \/ /\ last'.key[1] \in TopKeys(tbl)
                           /\ SubFull(tbl, last'.key[1], last'.key[2])
                     /\ tbl' = tbl
            /\ (/\ last'.key[1] \in TopKeys(tbl)
                /\ ~SubFull(tbl, last'.key[1], last'.key[2]))
                  => last'.res = "ok"]_vars

\* A Set of a new key1 raised FullError on a full top array of capacity 3.
C18_Witness ==
    /\ last.op = "set" /\ last.res = "FullError"
    /\ last.key[1] \notin TopKeys(tbl)
    /\ ~HasEmpty(tbl.array) /\ table_size(tbl) = 3

\* C21: Delete terminates in every reachable state, also when every top-level
\* slot is occupied and the deleted pair's sub-table stays non-empty.
C21_DeleteTerminates == last.op = "del" => last.res # "hang"

\* The circular scan of a sub-table from position reaches target without
\* passing an empty slot.
RECURSIVE SubScanReaches(_, _, _, _)
SubScanReaches(sub, position, target, n) ==
    IF n = 0 THEN FALSE
    ELSE IF position = target THEN TRUE
    ELSE IF sub.array[position + 1] = None THEN FALSE
    ELSE SubScanReaches(sub, (position + 1) % Len(sub.array), target, n - 1)

SubTableOf(T, key1) == T.array[SlotOfKey(T, key1)][2]

\* C24: in every sub-table, for every key2 stored in it, the circular scan from
\* hash2(key2), computed with that sub-table's own capacity, reaches key2's
\* slot without first passing an empty slot.
C24_SubProbeChainIntact ==
    Running => \A i \in OccupiedSlots(tbl) :
                  LET sub == tbl.array[i][2]
                  IN  \A j \in 1..Len(sub.array) :
                        sub.array[j] # None
                          => SubScanReaches(sub, hash2(sub.array[j][1], sub), j - 1,
                                            Len(sub.array))

\* ("a","y") deleted from a's sub-table of capacity 3, where "xy" has the hash2
\* of "y" and stays stored, while d's sub-table has capacity 2.
C24_Witness ==
    /\ IsDel /\ last.key = <<(<<97>>), (<<121>>)>>
    /\ ref[<<(<<97>>), (<<120, 121>>)>>] # 0
    /\ <<97>> \in TopKeys(tbl) /\ <<100>> \in TopKeys(tbl)
    /\ Len(SubTableOf(tbl, <<97>>).array) = 3
    /\ Len(SubTableOf(tbl, <<100>>).array) = 2
    /\ hash2(<<121>>, SubTableOf(tbl, <<97>>)) = hash2(<<120, 121>>, SubTableOf(tbl, <<97>>))

(***************************************************************************)
(* The generators (checked under SpecIter).                                *)
(***************************************************************************)
\* C27: on a non-empty table, consuming iter_keys / iter_values for None or
\* for a stored key1, with no other call in between, yields exactly the
\* elements of keys / values for the same argument and finishes without
\* raising, and the table is unchanged.
C27_IteratorsFinish ==
    [][(/\ last'.op = "next" /\ gen'.phase = "done" /\ gen'.clean
        /\ StoredPairs # {}
        /\ gen.key = None \/ StoredUnder(gen.key) # {})
         => /\ gen'.res = "ok"
            /\ gen'.out = IF gen.kind = "iter_keys" THEN keys(tbl, gen.key)
                          ELSE values(tbl, gen.key)
            /\ tbl' = tbl]_vars

(***************************************************************************)
(* Capacity of the two-level table (checked under SpecGrow).               *)
(***************************************************************************)
\* The position (1-based) of a capacity in the size sequence.
SizeIndexOf(T, size) == CHOOSE j \in 1..Len(T.TABLE_SIZES) : T.TABLE_SIZES[j] = size

LastSize(T) == T.TABLE_SIZES[Len(T.TABLE_SIZES)]

AtSizeIndex(T) ==
    table_size(T) = T.TABLE_SIZES[IF T.size_index + 1 > Len(T.TABLE_SIZES)
                                  THEN Len(T.TABLE_SIZES) ELSE T.size_index + 1]

\* A Rehash at the last capacity leaves the top array, count and every stored
\* pair unchanged.
RehashAtLastIsNoOp ==
    (Running /\ table_size(tbl) = LastSize(tbl))
      => LET r == rehash(tbl)
         IN  /\ r.res = "ok"
             /\ r.T.array = tbl.array
             /\ r.T.count = tbl.count
             /\ \A q \in StoredPairs :
                   getitem(r.T, q) = [res |-> "ok", val |-> ref[q]]

\* C22 as stated: the capacity starts at the first entry of the size sequence,
\* changes only by stepping to the next entry and never decreases under Sets
\* and Deletes; a Rehash at the last capacity leaves the top array, count and
\* every stored pair unchanged.
C22_StepToNext ==
    /\ table_size(tbl) = tbl.TABLE_SIZES[1]
    /\ [][(Running' /\ table_size(tbl') # table_size(tbl))
            => /\ table_size(tbl) # LastSize(tbl)
               /\ table_size(tbl') = NextSize(tbl, table_size(tbl))]_vars
    /\ []RehashAtLastIsNoOp

\* C22, amended: the capacity starts at the first entry of the size sequence,
\* is always the entry size_index points at, never decreases, and is changed
\* only by a Set, which moves it to a later entry and passes over an entry
\* only when that entry was too small for the keys re-inserted; a Rehash at
\* the last capacity leaves the top array, count and every stored pair
\* unchanged.
C22_CapacityProgression ==
    /\ table_size(tbl) = tbl.TABLE_SIZES[1]
    /\ [](Running => AtSizeIndex(tbl))
    /\ [][Running' =>
            /\ SizeIndexOf(tbl, table_size(tbl')) >= SizeIndexOf(tbl, table_size(tbl))
            /\ table_size(tbl') # table_size(tbl) => last'.op = "set"
            /\ \A j \in 1..Len(tbl.TABLE_SIZES) :
                  (/\ j > SizeIndexOf(tbl, table_size(tbl))
                   /\ j < SizeIndexOf(tbl, table_size(tbl')))
                    => Cardinality(TopKeys(tbl')) > tbl.TABLE_SIZES[j] \div 2]_vars
    /\ []RehashAtLastIsNoOp

\* A Set at the last capacity, 7, that invoked Rehash (count above 7 div 2)
\* with all four key1 stored.
C22_Witness ==
    /\ IsSet /\ last.size = 7 /\ table_size(tbl) = 7
    /\ tbl.count > 3
    /\ Cardinality(TopKeys(tbl)) = 4

\* C23: after every Set returns, the number of occupied top-level slots is at
\* most capacity div 2, unless the capacity is the last entry of the sequence.
C23_LoadBound ==
    (Running /\ last.op = "set")
      => \/ Cardinality(OccupiedSlots(tbl)) <= table_size(tbl) \div 2
         \/ table_size(tbl) = LastSize(tbl)

\* The Set of a second key1 at capacity 2: the Rehash to 3 was not enough and
\* re-insertion triggered the Rehash to 5.
C23_Witness ==
    /\ IsSet /\ last.size = 2 /\ table_size(tbl) = 5
    /\ Cardinality(OccupiedSlots(tbl)) = 2

(***************************************************************************)
(* Properties of the trie (checked under SpecTrie).                        *)
(***************************************************************************)
\* C2: len() of the root equals the number of distinct keys stored.
C2_TrieLenIsKeyCount == trie_len(trie) = Cardinality(tkeys)

\* A Set on the stored key "a" has acted (it ended in RecursionError) while
\* "b" was stored as well.
C2_Witness ==
    /\ tlast.op = "set" /\ tlast.key = <<97>> /\ tlast.res = "RecursionError"
    /\ tkeys = {<<97>>, <<98>>}
    /\ trie_len(trie) = 2
    /\ \E i \in 1..TABLE_SIZE : IsNode(trie.table[i])

\* C4: Set(key, v) followed by Get(key) returns v, for any key.
C4_TrieSetThenGet ==
    tlast.op = "set"
      => /\ tlast.res = "ok"
         /\ trie_getitem(trie, tlast.key) = [res |-> "ok", val |-> tlast.val]

\* C6: a successful Delete(key) leaves Get on every other stored key as it was.
C6_TrieDeleteKeepsOthers ==
    [][(tlast'.op = "del" /\ tlast'.res = "ok")
         => \A k \in TKeys \ {tlast'.key} :
               trie_contains(trie, k)
                 => trie_getitem(trie', k) = trie_getitem(trie, k)]_vars

\* "aba" deleted out of the node it shared with "abb": "abb" was moved up to the
\* root by the collapse.
C6_Witness ==
    /\ tlast.op = "del" /\ tlast.res = "ok" /\ tlast.key = <<97, 98, 97>>
    /\ get_location(trie, <<97, 98, 98>>) = [res |-> "ok", loc |-> <<19>>]
    /\ tkeys = {<<97, 98, 98>>, <<98>>}

\* C8: Get, Delete and Locate on a key that is not stored fail with KeyError
\* and leave the structure unchanged.
C8_TrieMissingIsKeyError ==
    [][(tlast'.op \in {"get", "del", "locate"} /\ ~trie_contains(trie, tlast'.key))
         => (tlast'.res = "KeyError" /\ trie' = trie)]_vars

\* The number of direct entries below a nested node is at least two.
RECURSIVE NestedHoldTwo(_)
NestedHoldTwo(self) ==
    \A i \in 1..TABLE_SIZE :
        IsNode(self.table[i])
          => trie_len(self.table[i][2]) >= 2 /\ NestedHoldTwo(self.table[i][2])

\* C10: every nested node holds at least two keys in total.
C10_NoSoleEntryChain == NestedHoldTwo(trie)

\* Every direct entry of a level-l node sits in slot Hash(key, l), with
\* l <= Len(key), in the terminal slot exactly when l = Len(key); every nested
\* node of a level-l node has level l + 1.
RECURSIVE EntriesInPlace(_)
EntriesInPlace(self) ==
    \A i \in 1..TABLE_SIZE :
        LET e == self.table[i]
        IN  /\ IsTuple(e) => /\ self.level <= Len(e[2])
                             /\ i - 1 = hash(self, e[2])
                             /\ (i = TABLE_SIZE) <=> (self.level = Len(e[2]))
            /\ IsNode(e) => /\ e[2].level = self.level + 1
                            /\ EntriesInPlace(e[2])

\* C15: invariant I4, every direct entry sits in the slot its key hashes to at
\* the level of its node, which is at most the key's length, and every nested
\* node is one level below its parent.
C15_EntriesInPlace == EntriesInPlace(trie)

\* C19: Set(key, v2) on a stored key returns normally and changes only that
\* entry's value: len(), Locate(key), the nested nodes and the other entries
\* are unchanged.
C19_OverwriteInPlace ==
    [][(tlast'.op = "set" /\ trie_contains(trie, tlast'.key))
         => /\ tlast'.res = "ok"
            /\ trie_getitem(trie', tlast'.key) = [res |-> "ok", val |-> tlast'.val]
            /\ trie_len(trie') = trie_len(trie)
            /\ get_location(trie', tlast'.key) = get_location(trie, tlast'.key)
            /\ \A k \in TKeys \ {tlast'.key} :
                  /\ trie_getitem(trie', k) = trie_getitem(trie, k)
                  /\ get_location(trie', k) = get_location(trie, k)]_vars

\* The entry the descent for key ends at: the first slot on key's path that
\* holds no nested node.
RECURSIVE EndSlot(_, _)
EndSlot(self, key) ==
    LET e == self.table[hash(self, key) + 1]
    IN  IF IsNode(e) THEN EndSlot(e[2], key) ELSE e

Collides(self, key) == IsTuple(EndSlot(self, key)) /\ EndSlot(self, key)[2] # key

\* C20: Set(key, v) on a slot holding a direct entry for a different key
\* returns normally, and afterwards the old and the new entry are retrievable
\* with their values.
C20_SplitCompletes ==
    [][(tlast'.op = "set" /\ Collides(trie, tlast'.key))
         => /\ tlast'.res = "ok"
            /\ trie_getitem(trie', tlast'.key) = [res |-> "ok", val |-> tlast'.val]
            /\ LET old == EndSlot(trie, tlast'.key)
               IN  trie_getitem(trie', old[2]) = [res |-> "ok", val |-> old[3]]]_vars

\* Hash(key, level).
HashAt(key, level) == hash(IHT_new(level), key)

\* The entry reached from a node by following a sequence of slot indices.
RECURSIVE Follow(_, _, _)
Follow(self, loc, i) ==
    LET e == self.table[loc[i] + 1]
    IN  IF i = Len(loc) THEN e
        ELSE IF IsNode(e) THEN Follow(e[2], loc, i + 1)
        ELSE None

\* C25: for every stored key, Locate(key) returns [Hash(key,0), ..., Hash(key,d)],
\* following these slots from the root ends at the direct entry for key (held
\* by a node of level d), and Locate does not change the structure.
C25_LocateIsHashPath ==
    /\ [](\A k \in TKeys :
            trie_contains(trie, k)
              => LET r == get_location(trie, k)
                 IN  /\ r.res = "ok"
                     /\ Len(r.loc) >= 1
                     /\ \A i \in 1..Len(r.loc) : r.loc[i] = HashAt(k, i - 1)
                     /\ IsTuple(Follow(trie, r.loc, 1))
                     /\ Follow(trie, r.loc, 1)[2] = k)
    /\ [][tlast'.op = "locate"
            => /\ trie' = trie
               /\ tlast'.res = get_location(trie, tlast'.key).res
               /\ tlast'.val = get_location(trie, tlast'.key).loc]_vars

\* Locate("aba") returned [19, 20, 19]: "aba" sits in a node of level 2, next
\* to "abb".
C25_Witness ==
    /\ tlast.op = "locate" /\ tlast.key = <<97, 98, 97>> /\ tlast.res = "ok"
    /\ tlast.val = <<19, 20, 19>>
    /\ trie_contains(trie, <<97, 98, 98>>)

====
